---- MODULE Spec2Model ----
(***************************************************************************)
(* A model of astrapy: the data-plane facades AstraDB / AstraDBCollection  *)
(* (db.py), the control-plane facade AstraDBOps (ops.py) and the helpers   *)
(* of utils.py.                                                            *)
(*                                                                         *)
(* One single-threaded caller drives the library.  A public method runs    *)
(* from its call up to requests.request (the caller is then blocked,       *)
(* pc = "awaiting"), and from the answer of the remote service up to its   *)
(* return, its raise or its next request.  The remote service is a stub    *)
(* that may answer any request with any body (or status) of a small set.   *)
(*                                                                         *)
(* Python values: a dict is a function on strings (a record), a list is a  *)
(* sequence, an Optional value is None == <<>> or Some(v) == <<v>>, index  *)
(* [0] of Python is index [1] here.                                        *)
(***************************************************************************)
EXTENDS Integers, Sequences, FiniteSets, TLC

VARIABLES
    pc,         \* "idle": no call is executing; "awaiting": blocked in make_request
    method,     \* the public method called last ("none" before the first call)
    frame,      \* the local variables the executing method keeps across its request
    sent,       \* the requests issued by the call (history, in order)
    received,   \* the answers handed back to the call (history, in order)
    outcome,    \* how the call, or the last next() on its generator, ended
    gen,        \* the generator object made by paginate
    yielded,    \* the documents the generator has yielded (history, in order)
    facade,     \* the facade object the caller holds (NoFacade: none yet)
    remote,     \* the documents of the remote collection, while upsert runs
    held        \* the options object the caller passed to create_collection
                \* and still holds (NoObject: none)

vars == <<pc, method, frame, sent, received, outcome, gen, yielded, facade,
          remote, held>>

(***************************************************************************)
(* Bounds of the model.                                                    *)
(***************************************************************************)
\* the stub remote serves at most MaxPages pages to one pagination
MaxPages == 3
\* the stub remote serves at most MaxDocs documents to one pagination
MaxDocs == 2

(***************************************************************************)
(* Python values.                                                          *)
(***************************************************************************)
None == <<>>
Some(v) == <<v>>
EmptyDict == [k \in {} |-> None]

\* Python truthiness of an Optional[dict]: None and {} are falsy
Falsy(o) == o = None \/ DOMAIN o[1] = {}

Last(s) == s[Len(s)]

\* outcomes of a call
Pending == [kind |-> "pending"]
Return(v) == [kind |-> "return", value |-> v]
Raise(exc, v) == [kind |-> "raise", exc |-> exc, value |-> v]
Yield(v) == [kind |-> "yield", value |-> v]
StopIteration == [kind |-> "stop"]

(***************************************************************************)
(* utils.py                                                                *)
(***************************************************************************)
\* a Python str that the code builds from parts is the sequence of its parts

\* variant of make_request that leaves base_url out of the url
make_request_path_only(base_url, auth_header, token, http_method, path, json_data, url_params) ==
    [method |-> http_method, url |-> path,
     headers |-> [h \in {auth_header} |-> token],
     json_data |-> json_data, url_params |-> url_params]

\* make_request: the request handed to requests.request (the User-Agent
\* header and the timeout are the same in every request and left out)
make_request(base_url, auth_header, token, http_method, path, json_data, url_params) ==
    [method |-> http_method, url |-> base_url \o path,
     headers |-> [h \in {auth_header} |-> token],
     json_data |-> json_data, url_params |-> url_params]

\* variant of make_payload without the "is not None" test of line 102
make_payload_all_keys(top_level, kwargs) ==
    [t \in {top_level} |-> [key \in DOMAIN kwargs |-> kwargs[key]]]

\* make_payload(top_level, **kwargs); kwargs maps each keyword to an Optional
make_payload(top_level, kwargs) ==
    LET params == [key \in DOMAIN kwargs |-> kwargs[key]]
        provided == {key \in DOMAIN params : params[key] # None}
    IN  [t \in {top_level} |-> [key \in provided |-> params[key][1]]]

(***************************************************************************)
(* parse_endpoint_url (utils.py).  An endpoint is the sequence of its      *)
(* characters; the pattern of line 110 is matched at the start of the      *)
(* string (re.match), greedily and with backtracking.                      *)
(***************************************************************************)
Digits == {"0", "1", "2", "3", "4", "5", "6", "7", "8", "9"}
LowerCase ==
    {"a", "b", "c", "d", "e", "f", "g", "h", "i", "j", "k", "l", "m",
     "n", "o", "p", "q", "r", "s", "t", "u", "v", "w", "x", "y", "z"}
UpperCase ==
    {"A", "B", "C", "D", "E", "F", "G", "H", "I", "J", "K", "L", "M",
     "N", "O", "P", "Q", "R", "S", "T", "U", "V", "W", "X", "Y", "Z"}
\* [a-fA-F0-9\-]
DbIdChars ==
    {"a", "b", "c", "d", "e", "f", "A", "B", "C", "D", "E", "F", "-"} \cup Digits
\* [a-zA-Z0-9\-]
DbRegionChars == LowerCase \cup UpperCase \cup Digits \cup {"-"}
\* [a-zA-Z0-9\-\.]
DbHostnameChars == DbRegionChars \cup {"."}

Https == <<"h", "t", "t", "p", "s", ":", "/", "/">>
DotCom == <<".", "c", "o", "m">>

Max(S) == CHOOSE x \in S : \A y \in S : y <= x

\* the start of the pattern: https://, 36 characters of the id, a dash
endpoint_head_matches(url) ==
    /\ Len(url) >= 45
    /\ SubSeq(url, 1, 8) = Https
    /\ \A i \in 9..44 : url[i] \in DbIdChars
    /\ url[45] = "-"

\* the positions where db_region may end: it starts at 46 and a dot follows
endpoint_region_ends(url) ==
    {k \in 46..(Len(url) - 1) :
        /\ \A i \in 46..k : url[i] \in DbRegionChars
        /\ url[k + 1] = "."}

\* the positions where db_hostname may end, db_region ending at k: one or
\* more characters of the class, then ".com"
endpoint_hostname_ends(url, k) ==
    {m \in (k + 6)..Len(url) :
        /\ \A i \in (k + 2)..m : url[i] \in DbHostnameChars
        /\ SubSeq(url, m - 3, m) = DotCom}

\* variant of parse_endpoint_url that gives empty groups where the pattern
\* does not match
parse_endpoint_url_no_raise(url) ==
    LET ks == IF endpoint_head_matches(url)
              THEN {k \in endpoint_region_ends(url) :
                       endpoint_hostname_ends(url, k) # {}}
              ELSE {}
    IN  IF ks = {} THEN Return(<<<<>>, <<>>, <<>>>>)
        ELSE LET k == Max(ks)
                 m == Max(endpoint_hostname_ends(url, k))
             IN  Return(<<SubSeq(url, 9, 44), SubSeq(url, 46, k),
                          SubSeq(url, k + 2, m)>>)

\* (db_id, db_region, db_hostname), or ValueError
parse_endpoint_url(url) ==
    LET ks == IF endpoint_head_matches(url)
              THEN {k \in endpoint_region_ends(url) :
                       endpoint_hostname_ends(url, k) # {}}
              ELSE {}
    IN  IF ks = {} THEN Raise("ValueError", "Invalid URL format")
        ELSE LET k == Max(ks)
                 m == Max(endpoint_hostname_ends(url, k))
             IN  Return(<<SubSeq(url, 9, 44), SubSeq(url, 46, k),
                          SubSeq(url, k + 2, m)>>)

(***************************************************************************)
(* json.dumps of a list of error objects, as the sequence of its tokens.   *)
(* A record keeps no insertion order: errorCode is written before message. *)
(***************************************************************************)
json_dumps_dict(e) ==
    LET code == IF "errorCode" \in DOMAIN e
                THEN <<"errorCode", ":", e.errorCode>> ELSE <<>>
        msg == IF "message" \in DOMAIN e
               THEN <<"message", ":", e.message>> ELSE <<>>
        sep == IF code # <<>> /\ msg # <<>> THEN <<",">> ELSE <<>>
    IN  <<"{">> \o code \o sep \o msg \o <<"}">>

RECURSIVE json_dumps_items(_)
json_dumps_items(l) ==
    IF l = <<>> THEN <<>>
    ELSE IF Len(l) = 1 THEN json_dumps_dict(l[1])
    ELSE json_dumps_dict(l[1]) \o <<",">> \o json_dumps_items(Tail(l))

json_dumps(l) == <<"[">> \o json_dumps_items(l) \o <<"]">>

(***************************************************************************)
(* The shared error rule (db.py), applied to a parsed response body.       *)
(***************************************************************************)
\* variant of _request without the test of line 65
AstraDBCollection_request_unchecked(responsebody, skip_error_check) ==
    Return(responsebody)

AstraDBCollection_request(responsebody, skip_error_check) ==
    IF ~skip_error_check /\ "errors" \in DOMAIN responsebody
    THEN Raise("ValueError", json_dumps(responsebody.errors))
    ELSE Return(responsebody)

AstraDB_request(responsebody, skip_error_check) ==
    IF ~skip_error_check /\ "errors" \in DOMAIN responsebody
    THEN Raise("ValueError", json_dumps(responsebody.errors))
    ELSE Return(responsebody)

(***************************************************************************)
(* The arguments the caller passes, and the bodies the stub remote sends.  *)
(***************************************************************************)
Filters == {None, Some([a |-> "1"])}
Updates == {None, Some([set |-> "1"])}
Sorts == {None, Some(EmptyDict)}
Options == {None, Some(EmptyDict), Some([limit |-> 1]), Some([pagingState |-> "Z"])}
Documents == {[_id |-> "id1"], [_id |-> "id2", v |-> "x"]}
Ids == {"id1", "id2"}

\* the keys of a response body that make_payload callers name as operations
OperationNames ==
    {"find", "findOne", "findOneAndUpdate", "findOneAndReplace", "insertOne",
     "insertMany", "updateOne", "deleteOne", "findCollections",
     "createCollection", "deleteCollection"}

ErrorLists ==
    {<<[errorCode |-> "DOCUMENT_ALREADY_EXISTS"]>>,
     <<[message |-> "boom"], [errorCode |-> "X"]>>,
     <<[errorCode |-> "X", message |-> "boom"]>>,
     <<>>}

\* bodies without an errors key
PlainBodies ==
    {EmptyDict,
     [status |-> [insertedIds |-> <<"id1">>]],
     [status |-> [insertedIds |-> <<"id2", "id1">>]],
     [status |-> [insertedIds |-> <<>>]],
     [data |-> [document |-> Some([_id |-> "id2"])]],
     [data |-> [document |-> None]]}

\* bodies with an errors key, alone or next to a status (a partial failure)
ErrorBodies ==
    {[errors |-> l] : l \in ErrorLists}
    \cup {[errors |-> l, status |-> [insertedIds |-> <<"id1">>]] : l \in ErrorLists}

Bodies == PlainBodies \cup ErrorBodies

\* the arguments of the constructors
Tokens == {None, Some("tok")}
Namespaces == {None, Some("ns")}
DevOpsUrls == {None, Some(""), Some("dev.ops.host")}

\* 01234567-89ab-cdef-0123-456789abcdef
ExampleDatabaseId ==
    <<"0", "1", "2", "3", "4", "5", "6", "7", "-", "8", "9", "a",
      "b", "-", "c", "d", "e", "f", "-", "0", "1", "2", "3", "-",
      "4", "5", "6", "7", "8", "9", "a", "b", "c", "d", "e", "f">>
\* us-east1
ExampleRegion == <<"u", "s", "-", "e", "a", "s", "t", "1">>
\* apps.astra.datastax.com
ExampleHostname ==
    <<"a", "p", "p", "s", ".", "a", "s", "t", "r", "a", ".", "d",
      "a", "t", "a", "s", "t", "a", "x", ".", "c", "o", "m">>
ExampleEndpoint ==
    Https \o ExampleDatabaseId \o <<"-">> \o ExampleRegion \o <<".">>
          \o ExampleHostname

\* endpoints of the form https://<id>-<region>.<host>
WellFormedEndpoints == {ExampleEndpoint}
\* a well-formed endpoint followed by more text: /api, .evil.org
ExtendedEndpoints ==
    {ExampleEndpoint \o <<"/", "a", "p", "i">>, ExampleEndpoint \o <<".", "e", "v", "i", "l", ".", "o", "r", "g">>}
\* endpoints not of the form: the scheme http, an id of 35 characters, an id
\* with a character that is no hexadecimal digit, no region, no dot after the
\* region, a host that does not end in .com, the empty string
MalformedEndpoints ==
    {<<"h", "t", "t", "p">> \o Tail(Tail(Tail(Tail(Tail(ExampleEndpoint))))),
     Https \o Tail(ExampleDatabaseId) \o <<"-">> \o ExampleRegion \o <<".">>
           \o ExampleHostname,
     Https \o <<"g">> \o Tail(ExampleDatabaseId) \o <<"-">> \o ExampleRegion
           \o <<".">> \o ExampleHostname,
     Https \o ExampleDatabaseId \o <<"-">> \o <<".">> \o ExampleHostname,
     Https \o ExampleDatabaseId \o <<"-">> \o ExampleRegion,
     Https \o ExampleDatabaseId \o <<"-">> \o ExampleRegion \o <<".">>
           \o <<"a", "p", "p", "s", ".", "a", "s", "t", "r", "a", ".", "d", "a", "t", "a", "s", "t", "a", "x", ".", "o", "r", "g">>,
     <<>>}
ApiEndpoints ==
    {None} \cup {Some(e) : e \in WellFormedEndpoints \cup ExtendedEndpoints
                                  \cup MalformedEndpoints}

(***************************************************************************)
(* The facades (db.py, ops.py).  The caller holds one facade object at a   *)
(* time: an AstraDB, an AstraDBCollection (with the AstraDB it refers to)  *)
(* or an AstraDBOps.  The values of astrapy.defaults are kept symbolic.    *)
(***************************************************************************)
DEFAULT_AUTH_HEADER == "DEFAULT_AUTH_HEADER"
DEFAULT_KEYSPACE_NAME == "DEFAULT_KEYSPACE_NAME"
DEFAULT_BASE_PATH == "DEFAULT_BASE_PATH"
DEFAULT_DEV_OPS_URL == "DEFAULT_DEV_OPS_URL"
DEFAULT_DEV_OPS_PATH_PREFIX == "DEFAULT_DEV_OPS_PATH_PREFIX"

NoFacade == [kind |-> "none"]
NoObject == [kind |-> "none"]

\* the result of a constructor call and the object it leaves, if any
Constructed(object) == [result |-> Return(None), object |-> object]
NotConstructed(exc, v) == [result |-> Raise(exc, v), object |-> NoFacade]

\* AstraDB.__init__
AstraDB_init(token, api_endpoint, namespace) ==
    IF token = None \/ api_endpoint = None
    THEN NotConstructed("AssertionError", "Must provide token and api_endpoint")
    ELSE LET namespace1 == IF namespace = None THEN DEFAULT_KEYSPACE_NAME
                           ELSE namespace[1]
             parsed == parse_endpoint_url(api_endpoint[1])
             database_id == parsed.value[1]
             database_region == parsed.value[2]
             database_domain == parsed.value[3]
         IN  IF parsed.kind = "raise" THEN NotConstructed(parsed.exc, parsed.value)
             ELSE Constructed(
                      [kind |-> "AstraDB",
                       token |-> token[1],
                       database_id |-> database_id,
                       database_region |-> database_region,
                       database_domain |-> database_domain,
                       base_url |-> Https \o database_id \o <<"-">>
                                    \o database_region \o <<".">> \o database_domain,
                       base_path |-> <<DEFAULT_BASE_PATH, "/", namespace1>>,
                       namespace |-> namespace1])

\* AstraDBCollection.__init__; astra_db = NoFacade stands for astra_db=None
AstraDBCollection_init(collection_name, astra_db, token, api_endpoint, namespace) ==
    LET new == AstraDB_init(token, api_endpoint, namespace)
        astra_db1 == IF astra_db.kind = "none" THEN new.object ELSE astra_db
    IN  IF astra_db.kind = "none" /\ (token = None \/ api_endpoint = None)
        THEN NotConstructed("AssertionError", "Must provide token and api_endpoint")
        ELSE IF astra_db.kind = "none" /\ new.result.kind = "raise"
        THEN new
        ELSE Constructed(
                 [kind |-> "AstraDBCollection",
                  astra_db |-> astra_db1,
                  collection_name |-> collection_name,
                  base_path |-> astra_db1.base_path \o <<"/", collection_name>>])

\* AstraDBOps.__init__
AstraDBOps_init(token, dev_ops_url) ==
    LET dev_ops_url1 == IF dev_ops_url = None \/ dev_ops_url[1] = ""
                        THEN DEFAULT_DEV_OPS_URL ELSE dev_ops_url[1]
    IN  IF token = None THEN NotConstructed("TypeError", "can only concatenate str")
        ELSE Constructed(
                 [kind |-> "AstraDBOps",
                  token |-> <<"Bearer ", token[1]>>,
                  base_url |-> <<"https://", dev_ops_url1,
                                 DEFAULT_DEV_OPS_PATH_PREFIX>>])

\* the public methods that issue requests, by the class that defines them
CollectionMethods ==
    {"get", "find", "pop", "push", "find_one_and_replace", "find_one_and_update",
     "find_one", "insert_one", "insert_many", "update_one", "replace", "delete",
     "delete_subdocument"}
DatabaseMethods == {"get_collections", "create_collection", "delete_collection"}
OpsMethods ==
    {"get_databases", "create_database", "terminate_database",
     "delete_streaming_tenant"}
DataPlaneMethods ==
    CollectionMethods \cup DatabaseMethods \cup {"upsert", "paginated_find"}

\* the class of the object a method is called on (make_payload: on none)
Receiver(m) ==
    IF m \in CollectionMethods \cup {"upsert", "paginated_find"}
    THEN "AstraDBCollection"
    ELSE IF m \in DatabaseMethods \cup {"collection"} THEN "AstraDB"
    ELSE IF m \in OpsMethods THEN "AstraDBOps"
    ELSE facade.kind

(***************************************************************************)
(* A public method runs up to its HTTP request: the call is blocked in     *)
(* requests.request until the remote answers.                              *)
(***************************************************************************)
Issue(m, request, locals) ==
    /\ pc = "idle"
    /\ method = "none"
    /\ facade.kind = Receiver(m)
    /\ UNCHANGED facade
    /\ IF m = "upsert" THEN TRUE ELSE UNCHANGED remote
    /\ IF m = "create_collection" THEN TRUE ELSE held' = NoObject
    /\ pc' = "awaiting"
    /\ method' = m
    /\ frame' = locals
    /\ sent' = <<request>>
    /\ received' = <<>>
    /\ outcome' = Pending
    /\ gen' = None
    /\ yielded' = <<>>

\* a call that ends without a request
Finish(m, result, locals) ==
    /\ pc = "idle"
    /\ method = "none"
    /\ facade.kind = Receiver(m)
    /\ UNCHANGED <<facade, remote>>
    /\ IF m = "create_collection" THEN TRUE ELSE held' = NoObject
    /\ pc' = "idle"
    /\ method' = m
    /\ frame' = locals
    /\ sent' = <<>>
    /\ received' = <<>>
    /\ outcome' = result
    /\ gen' = None
    /\ yielded' = <<>>

\* a constructor call: it leaves the object it made, if it made one
Construct(m, new, locals) ==
    /\ pc = "idle"
    /\ method = "none"
    /\ pc' = "idle"
    /\ method' = m
    /\ frame' = locals
    /\ sent' = <<>>
    /\ received' = <<>>
    /\ outcome' = new.result
    /\ gen' = None
    /\ yielded' = <<>>
    /\ facade' = new.object
    /\ held' = NoObject
    /\ UNCHANGED remote

(***************************************************************************)
(* The constructors, called by a caller that holds no facade yet, and      *)
(* AstraDB.collection.                                                     *)
(***************************************************************************)
AstraDB_new(token, api_endpoint, namespace) ==
    /\ facade = NoFacade
    /\ Construct("AstraDB", AstraDB_init(token, api_endpoint, namespace),
                 [token |-> token, api_endpoint |-> api_endpoint,
                  namespace |-> namespace])

AstraDBCollection_new(collection_name, token, api_endpoint, namespace) ==
    /\ facade = NoFacade
    /\ Construct("AstraDBCollection",
                 AstraDBCollection_init(collection_name, NoFacade, token,
                                        api_endpoint, namespace),
                 [token |-> token, api_endpoint |-> api_endpoint,
                  namespace |-> namespace])

AstraDBOps_new(token, dev_ops_url) ==
    /\ facade = NoFacade
    /\ Construct("AstraDBOps", AstraDBOps_init(token, dev_ops_url),
                 [token |-> token, dev_ops_url |-> dev_ops_url])

\* AstraDB.collection: the caller goes on with the collection it returns
collection(collection_name) ==
    /\ facade.kind = "AstraDB"
    /\ Construct("collection",
                 AstraDBCollection_init(collection_name, facade, None, None, None),
                 [astra_db |-> facade])

(***************************************************************************)
(* AstraDBCollection (db.py), the single-request methods.                  *)
(***************************************************************************)
\* make_request, as AstraDBCollection._request calls it
AstraDBCollection_make_request(http_method, path, json_data, url_params) ==
    make_request(facade.astra_db.base_url, DEFAULT_AUTH_HEADER,
                 facade.astra_db.token, http_method, path, json_data, url_params)

AstraDBCollection_get(path, options) ==
    AstraDBCollection_make_request("GET",
        IF path = None \/ path[1] = "" THEN facade.base_path
        ELSE facade.base_path \o <<"/", path[1]>>,
        None, options)

AstraDBCollection_post(path, document) ==
    AstraDBCollection_make_request("POST", facade.base_path, document, None)

AstraDBCollection_put(path, document) ==
    AstraDBCollection_make_request("PUT", facade.base_path, document, None)

\* self._request(method=POST, path=self.base_path, json_data=json_query)
CollectionPOST(json_query) ==
    AstraDBCollection_make_request("POST", facade.base_path, Some(json_query), None)

get(path) ==
    Issue("get", AstraDBCollection_get(path, None), [skip_error_check |-> FALSE])

find_request(filter, projection, sort, options) ==
    AstraDBCollection_post(None,
        Some(make_payload("find", [filter |-> filter, projection |-> projection,
                                   options |-> options, sort |-> sort])))

find(filter, projection, sort, options) ==
    Issue("find", find_request(filter, projection, sort, options),
          [skip_error_check |-> FALSE])

pop(filter, update, options) ==
    Issue("pop",
          CollectionPOST(make_payload("findOneAndUpdate",
              [filter |-> filter, update |-> update, options |-> options])),
          [skip_error_check |-> FALSE])

push(filter, update, options) ==
    Issue("push",
          CollectionPOST(make_payload("findOneAndUpdate",
              [filter |-> filter, update |-> update, options |-> options])),
          [skip_error_check |-> FALSE])

find_one_and_replace_request(sort, filter, replacement, options) ==
    CollectionPOST(make_payload("findOneAndReplace",
        [filter |-> filter, replacement |-> replacement, options |-> options,
         sort |-> sort]))

find_one_and_replace(sort, filter, replacement, options) ==
    Issue("find_one_and_replace",
          find_one_and_replace_request(sort, filter, replacement, options),
          [skip_error_check |-> FALSE])

find_one_and_update(sort, update, filter, options) ==
    Issue("find_one_and_update",
          CollectionPOST(make_payload("findOneAndUpdate",
              [filter |-> filter, update |-> update, options |-> options,
               sort |-> sort])),
          [skip_error_check |-> FALSE])

find_one(filter, projection, sort, options) ==
    Issue("find_one",
          AstraDBCollection_post(None,
              Some(make_payload("findOne",
                  [filter |-> filter, projection |-> projection,
                   options |-> options, sort |-> sort]))),
          [skip_error_check |-> FALSE])

insert_one_request(document) ==
    CollectionPOST(make_payload("insertOne", [document |-> Some(document)]))

insert_one(document) ==
    Issue("insert_one", insert_one_request(document), [skip_error_check |-> FALSE])

\* variant of insert_many that does not pass partial_failures_allowed on
insert_many_checked(documents, options, partial_failures_allowed) ==
    Issue("insert_many",
          CollectionPOST(make_payload("insertMany",
              [documents |-> Some(documents), options |-> options])),
          [skip_error_check |-> FALSE,
           partial_failures_allowed |-> partial_failures_allowed])

insert_many(documents, options, partial_failures_allowed) ==
    Issue("insert_many",
          CollectionPOST(make_payload("insertMany",
              [documents |-> Some(documents), options |-> options])),
          [skip_error_check |-> partial_failures_allowed,
           partial_failures_allowed |-> partial_failures_allowed])

update_one(filter, update) ==
    Issue("update_one",
          CollectionPOST(make_payload("updateOne",
              [filter |-> filter, update |-> update])),
          [skip_error_check |-> FALSE])

replace(path, document) ==
    Issue("replace", AstraDBCollection_put(path, Some(document)),
          [skip_error_check |-> FALSE])

delete(id) ==
    Issue("delete",
          CollectionPOST([deleteOne |-> [filter |-> [_id |-> id]]]),
          [skip_error_check |-> FALSE])

delete_subdocument(id, subdoc) ==
    Issue("delete_subdocument",
          CollectionPOST([findOneAndUpdate |->
              [filter |-> [_id |-> id],
               update |-> [u \in {"$unset"} |-> [k \in {subdoc} |-> ""]]]]),
          [skip_error_check |-> FALSE])

\* the remote answers; AstraDBCollection._request applies the error rule and
\* the method hands its result to the caller (the bodies of the model are
\* all mappings, so _get's isinstance test passes)
AstraDBCollection_request_returns(responsebody) ==
    /\ pc = "awaiting"
    /\ method \in CollectionMethods
    /\ pc' = "idle"
    /\ received' = Append(received, responsebody)
    /\ outcome' = AstraDBCollection_request(responsebody, frame.skip_error_check)
    /\ UNCHANGED <<method, frame, sent, gen, yielded, facade, remote, held>>

(***************************************************************************)
(* AstraDBCollection.upsert: insert_one, then find_one_and_replace.        *)
(***************************************************************************)
\* the default of _request's skip_error_check, which insert_one and
\* find_one_and_replace leave alone
skip_error_check_default == FALSE

\* the documents a concurrent client writes
ClientDocuments == {[_id |-> "id1", v |-> "y"], [_id |-> "id2", v |-> "y"]}

\* the collections upsert may meet: no two documents with one _id
RemoteCollections ==
    {r \in SUBSET (Documents \cup ClientDocuments) :
        \A d1 \in r, d2 \in r : d1["_id"] = d2["_id"] => d1 = d2}

RemoteIds == {d["_id"] : d \in remote}

\* a body whose first error has errorCode DOCUMENT_ALREADY_EXISTS
FirstErrorAlreadyExists(body) ==
    /\ "errors" \in DOMAIN body
    /\ body.errors # <<>>
    /\ "errorCode" \in DOMAIN body.errors[1]
    /\ body.errors[1].errorCode = "DOCUMENT_ALREADY_EXISTS"

\* what the service may answer to a request of upsert: to insertOne,
\* DOCUMENT_ALREADY_EXISTS only if the _id is in the collection and no errors
\* only if it is not; to findOneAndReplace, the document only if the _id is
\* in the collection
remote_may_answer(step, document, responsebody) ==
    IF step = "insert_one"
    THEN /\ FirstErrorAlreadyExists(responsebody) => document["_id"] \in RemoteIds
         /\ "errors" \notin DOMAIN responsebody => document["_id"] \notin RemoteIds
    ELSE ("data" \in DOMAIN responsebody /\ "document" \in DOMAIN responsebody.data) =>
            (responsebody.data.document # None <=> document["_id"] \in RemoteIds)

\* the collection after the service has handled a request of upsert: a
\* request answered without errors has inserted, or replaced, the document
remote_handles(step, document, responsebody) ==
    IF "errors" \in DOMAIN responsebody THEN remote
    ELSE IF step = "insert_one" THEN remote \cup {document}
    ELSE IF document["_id"] \in RemoteIds
    THEN {d \in remote : d["_id"] # document["_id"]} \cup {document}
    ELSE remote

\* a concurrent client inserts a document, while upsert awaits an answer
client_insert_one(document) ==
    /\ method = "upsert"
    /\ pc = "awaiting"
    /\ document["_id"] \notin RemoteIds
    /\ remote' = remote \cup {document}
    /\ UNCHANGED <<pc, method, frame, sent, received, outcome, gen, yielded, facade,
                   held>>

\* a concurrent client deletes a document, while upsert awaits an answer
client_delete_one(id) ==
    /\ method = "upsert"
    /\ pc = "awaiting"
    /\ id \in RemoteIds
    /\ remote' = {d \in remote : d["_id"] # id}
    /\ UNCHANGED <<pc, method, frame, sent, received, outcome, gen, yielded, facade,
                   held>>

\* upsert is called, whatever the collection holds
upsert(document) ==
    /\ Issue("upsert", insert_one_request(document),
             [document |-> document, step |-> "insert_one"])
    /\ remote' \in RemoteCollections

\* variant of upsert_inserted_id with index [-1]
upsert_inserted_id_last(result) ==
    IF "status" \notin DOMAIN result THEN Raise("KeyError", "status")
    ELSE IF "insertedIds" \notin DOMAIN result.status
    THEN Raise("KeyError", "insertedIds")
    ELSE IF result.status.insertedIds = <<>> THEN Raise("IndexError", "0")
    ELSE Return(Last(result.status.insertedIds))

\* result["status"]["insertedIds"][0]
upsert_inserted_id(result) ==
    IF "status" \notin DOMAIN result THEN Raise("KeyError", "status")
    ELSE IF "insertedIds" \notin DOMAIN result.status
    THEN Raise("KeyError", "insertedIds")
    ELSE IF result.status.insertedIds = <<>> THEN Raise("IndexError", "0")
    ELSE Return(result.status.insertedIds[1])

\* result["data"]["document"]["_id"]
upsert_replaced_id(result) ==
    IF "data" \notin DOMAIN result THEN Raise("KeyError", "data")
    ELSE IF "document" \notin DOMAIN result.data THEN Raise("KeyError", "document")
    ELSE IF result.data.document = None THEN Raise("TypeError", "document")
    ELSE IF "_id" \notin DOMAIN result.data.document[1] THEN Raise("KeyError", "_id")
    ELSE Return(result.data.document[1]["_id"])

\* the test of lines 284-288 on the body insert_one returned
upsert_already_exists(result) ==
    /\ "errors" \in DOMAIN result
    /\ result.errors # <<>>
    /\ "errorCode" \in DOMAIN result.errors[1]
    /\ result.errors[1].errorCode = "DOCUMENT_ALREADY_EXISTS"

\* the remote answers a request of upsert: the error rule of the method that
\* issued it (insert_one, find_one_and_replace), then the rest of upsert
upsert_request_returns(responsebody) ==
    /\ pc = "awaiting"
    /\ method = "upsert"
    /\ remote_may_answer(frame.step, frame.document, responsebody)
    /\ remote' = remote_handles(frame.step, frame.document, responsebody)
    /\ received' = Append(received, responsebody)
    /\ UNCHANGED <<method, gen, yielded, facade, held>>
    /\ LET r == AstraDBCollection_request(responsebody, skip_error_check_default)
           result == r.value
       IN  IF r.kind = "raise"
           THEN /\ pc' = "idle"
                /\ outcome' = r
                /\ UNCHANGED <<frame, sent>>
           ELSE IF frame.step = "find_one_and_replace"
           THEN /\ pc' = "idle"
                /\ outcome' = upsert_replaced_id(result)
                /\ UNCHANGED <<frame, sent>>
           ELSE IF "errors" \in DOMAIN result /\ result.errors = <<>>
           THEN /\ pc' = "idle"
                /\ outcome' = Raise("IndexError", "0")
                /\ UNCHANGED <<frame, sent>>
           ELSE IF upsert_already_exists(result)
           THEN /\ pc' = "awaiting"
                /\ outcome' = Pending
                /\ frame' = [frame EXCEPT !.step = "find_one_and_replace"]
                /\ sent' = Append(sent,
                       find_one_and_replace_request(Some(EmptyDict),
                           Some([_id |-> frame.document["_id"]]),
                           Some(frame.document), None))
           ELSE /\ pc' = "idle"
                /\ outcome' = upsert_inserted_id(result)
                /\ UNCHANGED <<frame, sent>>

(***************************************************************************)
(* AstraDBCollection.paginate / paginated_find: a generator.  Its code     *)
(* runs only inside next(); it is suspended at a yield or blocked in the   *)
(* request of a page.                                                      *)
(*   created    not started                                                *)
(*   awaiting0  blocked in the request of line 112                         *)
(*   page0      suspended at the yield of line 116                         *)
(*   awaiting1  blocked in the request of line 119                         *)
(*   page1      suspended at the yield of line 121                         *)
(*   closed     returned or raised                                         *)
(***************************************************************************)
Docs == {"d1", "d2"}
Cursors == {"A", "B"}

DocSeqs(n) == UNION {[1..k -> Docs] : k \in 0..n}

\* the bodies the stub remote may answer a page request with
PageBodies(n) ==
    {[data |-> [documents |-> ds, nextPageState |-> c]] :
        ds \in DocSeqs(n), c \in {None} \cup {Some(x) : x \in Cursors}}
    \cup {[data |-> [documents |-> <<"d1">>]], [data |-> [nextPageState |-> None]]}
    \cup {[errors |-> <<[message |-> "boom"]>>,
           data |-> [documents |-> <<"d2">>, nextPageState |-> None]]}
    \cup Bodies

\* a body of the shape {data: {documents: [...], nextPageState: token|null}}
IsPage(body) ==
    /\ "errors" \notin DOMAIN body
    /\ "data" \in DOMAIN body
    /\ "documents" \in DOMAIN body.data
    /\ "nextPageState" \in DOMAIN body.data

\* variant of paginated_find that requests the first page at the call
paginated_find_eager(filter, projection, sort, options) ==
    /\ pc = "idle"
    /\ method = "none"
    /\ facade.kind = "AstraDBCollection"
    /\ UNCHANGED <<facade, remote, held>>
    /\ pc' = "awaiting"
    /\ method' = "paginated_find"
    /\ frame' = EmptyDict
    /\ sent' = <<find_request(filter, projection, sort,
                              Some(IF Falsy(options) THEN EmptyDict ELSE options[1]))>>
    /\ received' = <<>>
    /\ outcome' = Pending
    /\ yielded' = <<>>
    /\ gen' = [state |-> "awaiting0",
               kwargs |-> [filter |-> filter, projection |-> projection,
                           sort |-> sort],
               options |-> options,
               options0 |-> IF Falsy(options) THEN EmptyDict ELSE options[1],
               next_page_state |-> None,
               documents |-> <<>>,
               response1 |-> EmptyDict]

paginated_find(filter, projection, sort, options) ==
    /\ pc = "idle"
    /\ method = "none"
    /\ facade.kind = "AstraDBCollection"
    /\ UNCHANGED <<facade, remote, held>>
    /\ pc' = "idle"
    /\ method' = "paginated_find"
    /\ frame' = EmptyDict
    /\ sent' = <<>>
    /\ received' = <<>>
    /\ outcome' = [kind |-> "generator"]
    /\ yielded' = <<>>
    /\ gen' = [state |-> "created",
               kwargs |-> [filter |-> filter, projection |-> projection,
                           sort |-> sort],
               options |-> options,
               options0 |-> EmptyDict,
               next_page_state |-> None,
               documents |-> <<>>,
               response1 |-> EmptyDict]

\* request_method(options=..., **kwargs) with request_method = self.find
paginate_request(options, kwargs) ==
    find_request(kwargs.filter, kwargs.projection, kwargs.sort, Some(options))

\* _options = options or {}
paginate_options(options) == IF Falsy(options) THEN EmptyDict ELSE options[1]

\* variant of paginate_options1 that drops options0
paginate_options1_only_cursor(options0, next_page_state) ==
    [k \in {"pagingState"} |-> next_page_state]

\* {**options0, **{"pagingState": next_page_state}}
paginate_options1(options0, next_page_state) ==
    [k \in DOMAIN options0 \cup {"pagingState"} |->
        IF k = "pagingState" THEN next_page_state ELSE options0[k]]

\* variant of paginate_documents that loses the first document of a page
paginate_documents_skip_first(response) ==
    IF "data" \notin DOMAIN response THEN Raise("KeyError", "data")
    ELSE IF "documents" \notin DOMAIN response.data
    THEN Raise("KeyError", "documents")
    ELSE IF response.data.documents = <<>> THEN Return(<<>>)
    ELSE Return(Tail(response.data.documents))

\* response["data"]["documents"]
paginate_documents(response) ==
    IF "data" \notin DOMAIN response THEN Raise("KeyError", "data")
    ELSE IF "documents" \notin DOMAIN response.data
    THEN Raise("KeyError", "documents")
    ELSE Return(response.data.documents)

\* response["data"]["nextPageState"]
paginate_next_page_state(response) ==
    IF "data" \notin DOMAIN response THEN Raise("KeyError", "data")
    ELSE IF "nextPageState" \notin DOMAIN response.data
    THEN Raise("KeyError", "nextPageState")
    ELSE Return(response.data.nextPageState)

\* variant of paginate_ends that swallows the exception
paginate_ends_quietly(g, how) ==
    /\ pc' = "idle"
    /\ gen' = [g EXCEPT !.state = "closed", !.documents = <<>>]
    /\ outcome' = StopIteration
    /\ UNCHANGED <<sent, yielded>>

\* the generator ends, by return (StopIteration) or by an exception
paginate_ends(g, how) ==
    /\ pc' = "idle"
    /\ gen' = [g EXCEPT !.state = "closed", !.documents = <<>>]
    /\ outcome' = how
    /\ UNCHANGED <<sent, yielded>>

\* the generator yields the first of docs and is suspended in state
paginate_yields(g, state, docs) ==
    /\ pc' = "idle"
    /\ gen' = [g EXCEPT !.state = state, !.documents = Tail(docs)]
    /\ outcome' = Yield(Head(docs))
    /\ yielded' = Append(yielded, Head(docs))
    /\ UNCHANGED sent

\* line 117: while next_page_state is not None, request the next page
paginate_while(g, next_page_state) ==
    IF next_page_state # None
    THEN /\ pc' = "awaiting"
         /\ gen' = [g EXCEPT !.state = "awaiting1", !.documents = <<>>,
                             !.next_page_state = next_page_state]
         /\ sent' = Append(sent,
                paginate_request(paginate_options1(g.options0, next_page_state[1]),
                                 g.kwargs))
         /\ outcome' = Pending
         /\ UNCHANGED yielded
    ELSE paginate_ends([g EXCEPT !.next_page_state = next_page_state],
                       StopIteration)

\* line 122, after the documents of response1, then the loop test
paginate_after_page1(g) ==
    LET nps == paginate_next_page_state(g.response1)
    IN  IF nps.kind = "raise" THEN paginate_ends(g, nps)
        ELSE paginate_while(g, nps.value)

\* next(generator), called by the consumer
generator_next ==
    /\ pc = "idle"
    /\ gen # None
    /\ UNCHANGED <<method, frame, received, facade, remote, held>>
    /\ CASE gen.state = "created" ->
              LET _options == paginate_options(gen.options)
              IN  /\ pc' = "awaiting"
                  /\ gen' = [gen EXCEPT !.state = "awaiting0",
                                        !.options0 = _options]
                  /\ sent' = Append(sent, paginate_request(_options, gen.kwargs))
                  /\ outcome' = Pending
                  /\ UNCHANGED yielded
         [] gen.state = "page0" ->
              IF gen.documents # <<>>
              THEN paginate_yields(gen, "page0", gen.documents)
              ELSE paginate_while(gen, gen.next_page_state)
         [] gen.state = "page1" ->
              IF gen.documents # <<>>
              THEN paginate_yields(gen, "page1", gen.documents)
              ELSE paginate_after_page1(gen)
         [] OTHER -> paginate_ends(gen, StopIteration)

\* the stub remote serves one pagination MaxPages pages and MaxDocs documents
WithinBounds(responsebody) ==
    IsPage(responsebody) =>
        /\ Len(yielded) + Len(responsebody.data.documents) <= MaxDocs
        /\ responsebody.data.nextPageState # None => Len(received) + 1 < MaxPages

\* the remote answers a page request: find returns the body (or raises, by
\* the error rule) and the generator runs on to its next yield, request or end
paginate_request_returns(responsebody) ==
    /\ pc = "awaiting"
    /\ method = "paginated_find"
    /\ WithinBounds(responsebody)
    /\ received' = Append(received, responsebody)
    /\ UNCHANGED <<method, frame, facade, remote, held>>
    /\ LET r == AstraDBCollection_request(responsebody, skip_error_check_default)
           nps == paginate_next_page_state(responsebody)
           docs == paginate_documents(responsebody)
       IN  IF r.kind = "raise" THEN paginate_ends(gen, r)
           ELSE IF gen.state = "awaiting0"
           THEN IF nps.kind = "raise" THEN paginate_ends(gen, nps)
                ELSE IF docs.kind = "raise" THEN paginate_ends(gen, docs)
                ELSE LET g == [gen EXCEPT !.next_page_state = nps.value]
                     IN  IF docs.value # <<>>
                         THEN paginate_yields(g, "page0", docs.value)
                         ELSE paginate_while(g, nps.value)
           ELSE IF docs.kind = "raise" THEN paginate_ends(gen, docs)
                ELSE LET g == [gen EXCEPT !.response1 = responsebody]
                     IN  IF docs.value # <<>>
                         THEN paginate_yields(g, "page1", docs.value)
                         ELSE paginate_after_page1(g)

(***************************************************************************)
(* AstraDB (db.py).                                                        *)
(***************************************************************************)
\* self._request(method=POST, path=self.base_path, json_data=...)
DatabasePOST(json_data) ==
    make_request(facade.base_url, DEFAULT_AUTH_HEADER, facade.token,
                 "POST", facade.base_path, Some(json_data), None)

get_collections ==
    Issue("get_collections", DatabasePOST([findCollections |-> EmptyDict]),
          [skip_error_check |-> FALSE])

DictSet(d, key, value) ==
    [k \in DOMAIN d \cup {key} |-> IF k = key THEN value ELSE d[k]]

CollectionOptions ==
    {None, Some(EmptyDict), Some([vector |-> [dimension |-> 2]]),
     Some([vector |-> [metric |-> "cosine"]]), Some([indexing |-> "x"])}
Dimensions == {None, Some(0), Some(2)}
Metrics == {"", "cosine"}

\* lines 365-387 of create_collection: the mapping the local variable
\* options names when the method raises or builds its request, and whether
\* it raises
create_collection_locals(options, dimension, metric) ==
    LET options1 == IF Falsy(options) THEN [vector |-> EmptyDict]
                    ELSE IF "vector" \notin DOMAIN options[1]
                    THEN DictSet(options[1], "vector", EmptyDict)
                    ELSE options[1]
        has_dimension == dimension # None /\ dimension[1] # 0
        dimension_clash == has_dimension /\ "dimension" \in DOMAIN options1.vector
        options2 == IF has_dimension /\ ~dimension_clash
                    THEN DictSet(options1, "vector",
                             DictSet(options1.vector, "dimension", dimension[1]))
                    ELSE options1
        has_metric == metric # ""
        metric_clash == has_metric /\ "metric" \in DOMAIN options2.vector
        options3 == IF has_metric /\ ~metric_clash
                    THEN DictSet(options2, "vector",
                             DictSet(options2.vector, "metric", metric))
                    ELSE options2
    IN  [dimension_clash |-> dimension_clash,
         metric_clash |-> ~dimension_clash /\ metric_clash,
         options |-> IF dimension_clash THEN options1
                     ELSE IF metric_clash THEN options2 ELSE options3]

\* variant of create_collection_argument for a method that works on a copy
create_collection_argument_copied(options, dimension, metric) ==
    options

\* the object the caller passed as options, after the call: a falsy
\* argument is replaced by a new mapping (line 367) and stays as it was, any
\* other is the mapping the writes of lines 369, 374 and 383 go to
create_collection_argument(options, dimension, metric) ==
    IF Falsy(options) THEN options
    ELSE Some(create_collection_locals(options, dimension, metric).options)

\* create_collection, called with an object the caller has made (aliased
\* FALSE) or with the object of its last call (aliased TRUE); the caller
\* keeps the object
create_collection_call(options, dimension, metric, collection_name, aliased) ==
    LET l == create_collection_locals(options, dimension, metric)
        argument == create_collection_argument(options, dimension, metric)
        jsondata == [name |-> collection_name, options |-> l.options]
        locals == [skip_error_check |-> FALSE, options |-> options,
                   dimension |-> dimension, metric |-> metric,
                   aliased |-> aliased]
    IN  /\ pc = "idle"
        /\ method = "none"
        /\ IF l.dimension_clash
           THEN Finish("create_collection", Raise("ValueError", "dimension"), locals)
           ELSE IF l.metric_clash
           THEN Finish("create_collection", Raise("ValueError", "metric"), locals)
           ELSE Issue("create_collection",
                      DatabasePOST([createCollection |-> jsondata]), locals)
        /\ held' = IF argument = None THEN NoObject
                   ELSE [kind |-> "options", value |-> argument[1],
                         dimension |-> dimension, metric |-> metric,
                         requested |-> ~l.dimension_clash /\ ~l.metric_clash]

create_collection(options, dimension, metric, collection_name) ==
    create_collection_call(options, dimension, metric, collection_name, FALSE)

\* create_collection, called once more with the object of the last call
create_collection_again(dimension, metric, collection_name) ==
    /\ held.kind = "options"
    /\ create_collection_call(Some(held.value), dimension, metric,
                              collection_name, TRUE)

delete_collection(collection_name) ==
    Issue("delete_collection",
          DatabasePOST([deleteCollection |-> [name |-> collection_name]]),
          [skip_error_check |-> FALSE])

\* the remote answers; AstraDB._request applies the error rule and the method
\* hands its result to the caller
AstraDB_request_returns(responsebody) ==
    /\ pc = "awaiting"
    /\ method \in DatabaseMethods
    /\ pc' = "idle"
    /\ received' = Append(received, responsebody)
    /\ outcome' = AstraDB_request(responsebody, frame.skip_error_check)
    /\ UNCHANGED <<method, frame, sent, gen, yielded, facade, remote, held>>

(***************************************************************************)
(* make_payload, called on its own.                                        *)
(***************************************************************************)
TopLevels == {"find", "insertOne", "findCollections"}
KwargValues == {None, Some(EmptyDict), Some([a |-> "1"])}
Kwargs == UNION {[keys -> KwargValues] : keys \in SUBSET {"filter", "sort", "options"}}

make_payload_call(top_level, kwargs) ==
    Finish("make_payload", Return(make_payload(top_level, kwargs)),
           [top_level |-> top_level, kwargs |-> kwargs])

(***************************************************************************)
(* AstraDBOps (ops.py): the operations that read the status code, and one  *)
(* of the operations that parse the body.                                  *)
(***************************************************************************)
StatusCodes == {200, 201, 202, 409}
\* a text that is no JSON, an empty JSON object, a JSON object with errors
ResponseTexts == {"conflict", "{}", "{errors:[{message:boom}]}"}
OpsResponses ==
    {[status_code |-> s, headers |-> h, text |-> t] :
        s \in StatusCodes, h \in {EmptyDict, [Location |-> "db-123"]},
        t \in ResponseTexts}
DatabaseNames == {"db-1", "db-2"}

AstraDBOps_ops_request(http_method, path, options, json_data) ==
    make_request(facade.base_url, "Authorization", facade.token, http_method,
                 <<path>>, json_data,
                 IF options = None THEN Some(EmptyDict) ELSE options)

\* Response.json(), on the texts of OpsResponses
Response_json(r) ==
    IF r.text = "{}" THEN Return(EmptyDict)
    ELSE IF r.text = "{errors:[{message:boom}]}"
    THEN Return([errors |-> <<[message |-> "boom"]>>])
    ELSE Raise("JSONDecodeError", r.text)

get_databases(options) ==
    Issue("get_databases", AstraDBOps_ops_request("GET", "/databases", options, None),
          EmptyDict)

create_database(database_definition) ==
    Issue("create_database",
          AstraDBOps_ops_request("POST", "/databases", None, database_definition),
          EmptyDict)

terminate_database(database) ==
    Issue("terminate_database",
          AstraDBOps_ops_request("POST", "/databases/{database}/terminate", None, None),
          [database |-> database])

delete_streaming_tenant(tenant, cluster) ==
    Issue("delete_streaming_tenant",
          AstraDBOps_ops_request("DELETE",
              "/streaming/tenants/{tenant}/clusters/{cluster}", None, None),
          [tenant |-> tenant, cluster |-> cluster])

\* variant of create_database_result that takes any 2xx status for success
create_database_result_any_2xx(r) ==
    IF r.status_code \in {200, 201, 202}
    THEN IF "Location" \in DOMAIN r.headers
         THEN Return([id |-> r.headers.Location])
         ELSE Raise("KeyError", "Location")
    ELSE Return(None)

\* lines 71-74 of create_database
create_database_result(r) ==
    IF r.status_code = 201
    THEN IF "Location" \in DOMAIN r.headers
         THEN Return([id |-> r.headers.Location])
         ELSE Raise("KeyError", "Location")
    ELSE Return(None)

\* variant of terminate_database_result that raises as delete_streaming_tenant
terminate_database_result_raises(database, r) ==
    IF r.status_code = 202 THEN Return(Some(database))
    ELSE Raise("ValueError", r.text)

\* lines 81-84 of terminate_database
terminate_database_result(database, r) ==
    IF r.status_code = 202 THEN Return(Some(database)) ELSE Return(None)

\* lines 357-360 of delete_streaming_tenant
delete_streaming_tenant_result(r) ==
    IF r.status_code = 202 THEN Return(None) ELSE Raise("ValueError", r.text)

\* the control plane answers
AstraDBOps_request_returns(r) ==
    /\ pc = "awaiting"
    /\ method \in OpsMethods
    /\ pc' = "idle"
    /\ received' = Append(received, r)
    /\ outcome' = CASE method = "get_databases" -> Response_json(r)
                    [] method = "create_database" -> create_database_result(r)
                    [] method = "terminate_database" ->
                           terminate_database_result(frame.database, r)
                    [] OTHER -> delete_streaming_tenant_result(r)
    /\ UNCHANGED <<method, frame, sent, gen, yielded, facade, remote, held>>

(***************************************************************************)
(* requests.request raises (connection failure, timeout): the exception    *)
(* leaves the method that was blocked in it.                               *)
(***************************************************************************)
\* variant of TransportFailure in which the request is sent once more
TransportFailure_retry ==
    /\ pc = "awaiting"
    /\ sent' = Append(sent, Last(sent))
    /\ UNCHANGED <<pc, method, frame, received, outcome, gen, yielded, facade,
                   remote, held>>

TransportFailure ==
    /\ pc = "awaiting"
    /\ pc' = "idle"
    /\ outcome' = Raise("ConnectionError", "transport")
    /\ gen' = IF gen = None THEN None
              ELSE [gen EXCEPT !.state = "closed", !.documents = <<>>]
    /\ UNCHANGED <<method, frame, sent, received, yielded, facade, remote, held>>

(***************************************************************************)
(* The caller drops the result of the finished call (and the generator, if *)
(* any) before its next call: the histories above are kept per call, the   *)
(* facades keep nothing of a call.                                         *)
(***************************************************************************)
Discard ==
    /\ pc = "idle"
    /\ method # "none"
    /\ method' = "none"
    /\ frame' = EmptyDict
    /\ sent' = <<>>
    /\ received' = <<>>
    /\ outcome' = [kind |-> "none"]
    /\ gen' = None
    /\ yielded' = <<>>
    /\ remote' = {}
    /\ UNCHANGED <<pc, facade, held>>

(***************************************************************************)
(* The specification.                                                      *)
(***************************************************************************)
Init ==
    /\ pc = "idle"
    /\ method = "none"
    /\ frame = EmptyDict
    /\ sent = <<>>
    /\ received = <<>>
    /\ outcome = [kind |-> "none"]
    /\ gen = None
    /\ yielded = <<>>
    /\ facade = NoFacade
    /\ remote = {}
    /\ held = NoObject

Next ==
    \/ \E tk \in Tokens, e \in ApiEndpoints, ns \in Namespaces :
          AstraDB_new(tk, e, ns)
    \/ \E tk \in Tokens, e \in ApiEndpoints, ns \in Namespaces :
          AstraDBCollection_new("c", tk, e, ns)
    \/ \E tk \in Tokens, u \in DevOpsUrls : AstraDBOps_new(tk, u)
    \/ collection("c")
    \/ \E path \in {None, Some("p")} : get(path)
    \/ \E f \in Filters, o \in {None, Some([limit |-> 1])} :
          find(f, None, Some(EmptyDict), o)
    \/ \E f \in Filters, u \in Updates : pop(f, u, None)
    \/ \E f \in Filters, u \in Updates : push(f, u, None)
    \/ \E f \in Filters, d \in Documents :
          find_one_and_replace(Some(EmptyDict), f, Some(d), None)
    \/ \E f \in Filters, u \in Updates :
          find_one_and_update(Some(EmptyDict), u, f, None)
    \/ \E f \in Filters, st \in Sorts :
          find_one(f, Some(EmptyDict), st, Some(EmptyDict))
    \/ \E d \in Documents : insert_one(d)
    \/ \E ds \in {<<>>, <<[_id |-> "id1"]>>}, o \in {None, Some([ordered |-> FALSE])},
          partial_failures_allowed \in BOOLEAN :
          insert_many(ds, o, partial_failures_allowed)
    \/ \E f \in Filters, u \in Updates : update_one(f, u)
    \/ \E d \in Documents : replace("p", d)
    \/ \E id \in Ids : delete(id)
    \/ \E id \in Ids : delete_subdocument(id, "sub")
    \/ \E d \in Documents : upsert(d)
    \/ \E d \in ClientDocuments : client_insert_one(d)
    \/ \E id \in Ids : client_delete_one(id)
    \/ \E o \in Options : paginated_find(Some([a |-> "1"]), None, None, o)
    \/ generator_next
    \/ get_collections
    \/ \E o \in CollectionOptions, dim \in Dimensions, m \in Metrics :
          create_collection(o, dim, m, "c")
    \/ \E dim \in Dimensions, m \in Metrics : create_collection_again(dim, m, "c")
    \/ delete_collection("c")
    \/ \E t \in TopLevels, kw \in Kwargs : make_payload_call(t, kw)
    \/ \E o \in {None, Some([include |-> "all"])} : get_databases(o)
    \/ \E def \in {None, Some([name |-> "db"])} : create_database(def)
    \/ \E db \in DatabaseNames : terminate_database(db)
    \/ delete_streaming_tenant("t", "c")
    \/ \E b \in Bodies : AstraDBCollection_request_returns(b)
    \/ \E b \in Bodies : upsert_request_returns(b)
    \/ \E b \in PageBodies(MaxDocs) : paginate_request_returns(b)
    \/ \E b \in Bodies : AstraDB_request_returns(b)
    \/ \E r \in OpsResponses : AstraDBOps_request_returns(r)
    \/ TransportFailure
    \/ Discard

Spec == Init /\ [][Next]_vars

(***************************************************************************)
(* Properties.                                                             *)
(***************************************************************************)
RECURSIVE ConcatDocuments(_)
ConcatDocuments(pages) ==
    IF pages = <<>> THEN <<>>
    ELSE Head(pages).data.documents \o ConcatDocuments(Tail(pages))

\* a pagination all of whose requests so far were answered, with a page
Paginating ==
    /\ method = "paginated_find"
    /\ \A i \in 1..Len(received) : IsPage(received[i])
    /\ pc = "idle" => Len(sent) = Len(received)

IsPrefix(s, t) == Len(s) <= Len(t) /\ SubSeq(t, 1, Len(s)) = s

\* C1: the documents paginate yields are the concatenation of the documents
\* of the pages the request method returned, in page order: at every moment
\* what was yielded is a prefix of that concatenation, a page is requested
\* only once every document of the earlier pages was yielded, and when the
\* generator ends every document was yielded and the last page's cursor is
\* null.
C1_PaginateConcatenation ==
    Paginating =>
        /\ IsPrefix(yielded, ConcatDocuments(received))
        /\ received # <<>> =>
              IsPrefix(ConcatDocuments(SubSeq(received, 1, Len(received) - 1)),
                       yielded)
        /\ pc = "awaiting" => yielded = ConcatDocuments(received)
        /\ outcome.kind = "stop" =>
              /\ received # <<>>
              /\ Last(received).data.nextPageState = None
              /\ yielded = ConcatDocuments(received)

\* C1 witness: three pages were consumed to the end, with documents on the
\* first and on the third
C1_Witness ==
    /\ Paginating
    /\ outcome.kind = "stop"
    /\ Len(received) = 3
    /\ received[1].data.documents = <<"d2">>
    /\ received[3].data.documents = <<"d1">>
    /\ yielded = <<"d2", "d1">>

\* the options of the k-th page request
SentOptions(k) == sent[k].json_data[1].find.options

\* the caller's options as a mapping (None is passed on as the empty mapping)
CallerOptions == IF gen.options = None THEN EmptyDict ELSE gen.options[1]

\* C2: a pagination over N pages issues N requests and ends; the first
\* request carries the caller's options, the k-th the caller's options merged
\* with pagingState = the cursor of page k-1; no request follows a page whose
\* cursor is null.
C2_PaginateRequests ==
    Paginating =>
        /\ Len(received) <= Len(sent)
        /\ Len(sent) <= Len(received) + 1
        /\ pc = "awaiting" => Len(sent) = Len(received) + 1
        /\ \A k \in 1..Len(sent) :
              IF k = 1 THEN SentOptions(k) = CallerOptions
              ELSE LET cursor == received[k - 1].data.nextPageState
                   IN  /\ cursor # None
                       /\ DOMAIN SentOptions(k) = DOMAIN CallerOptions \cup {"pagingState"}
                       /\ SentOptions(k).pagingState = cursor[1]
                       /\ \A key \in DOMAIN CallerOptions \ {"pagingState"} :
                             SentOptions(k)[key] = CallerOptions[key]
        /\ \A k \in 1..Len(received) :
              received[k].data.nextPageState = None => Len(sent) <= k
        /\ outcome.kind = "stop" =>
              /\ Len(sent) = Len(received)
              /\ Last(received).data.nextPageState = None

\* C2 witness: three pages with cursors A, B, null were consumed to the end
\* by a caller that passed options of its own
C2_Witness ==
    /\ Paginating
    /\ outcome.kind = "stop"
    /\ Len(sent) = 3
    /\ gen.options = Some([limit |-> 1])
    /\ received[1].data.nextPageState = Some("A")
    /\ received[2].data.nextPageState = Some("B")
    /\ SentOptions(1) = [limit |-> 1]
    /\ SentOptions(2) = [limit |-> 1, pagingState |-> "A"]
    /\ SentOptions(3) = [limit |-> 1, pagingState |-> "B"]

\* C3: when the insertOne request of upsert is answered with a body whose
\* first error is DOCUMENT_ALREADY_EXISTS, upsert issues one follow-up
\* findOneAndReplace request with filter {_id: the document's _id} and the
\* document as replacement, and does not raise on that answer.
C3_UpsertFallsBackToReplace ==
    (method = "upsert" /\ received # <<>> /\ FirstErrorAlreadyExists(received[1])) =>
        /\ Len(sent) = 2
        /\ DOMAIN sent[2].json_data[1] = {"findOneAndReplace"}
        /\ sent[2].json_data[1].findOneAndReplace.filter
               = [_id |-> frame.document["_id"]]
        /\ sent[2].json_data[1].findOneAndReplace.replacement = frame.document
        /\ Len(received) = 1 => pc = "awaiting"
        /\ (Len(received) = 2 /\ upsert_replaced_id(received[2]).kind = "return"
                /\ "errors" \notin DOMAIN received[2]) =>
              /\ pc = "idle"
              /\ outcome = Return(received[2].data.document[1]["_id"])

\* a body without errors that reports inserted ids
InsertSucceeded(body) ==
    /\ "errors" \notin DOMAIN body
    /\ "status" \in DOMAIN body
    /\ "insertedIds" \in DOMAIN body.status
    /\ body.status.insertedIds # <<>>

\* C4: when the insertOne request of upsert is answered with a body without
\* errors and with status.insertedIds, upsert returns the first element of
\* that list, having issued that one request only.
C4_UpsertInsertSucceeds ==
    (method = "upsert" /\ received # <<>> /\ InsertSucceeded(received[1])) =>
        /\ pc = "idle"
        /\ outcome.kind = "return"
        /\ outcome.value = received[1].status.insertedIds[1]
        /\ Len(sent) = 1
        /\ Len(received) = 1

\* C4 witness: the insert reported two ids and upsert returned the first
C4_Witness ==
    /\ method = "upsert"
    /\ pc = "idle"
    /\ received = <<[status |-> [insertedIds |-> <<"id2", "id1">>]]>>
    /\ outcome = Return("id2")
    /\ Len(sent) = 1

\* the methods that are one request through _request
SingleRequestMethods == CollectionMethods \cup DatabaseMethods

\* the tokens of a serialized message name every error code of the list
NamesErrorCodes(message, errors) ==
    \A i \in 1..Len(errors) :
        "errorCode" \in DOMAIN errors[i] =>
            \E j \in 1..Len(message) : message[j] = errors[i].errorCode

\* C5: the error rule of AstraDBCollection._request and AstraDB._request: a
\* body with a non-empty errors list raises a ValueError whose message is
\* the serialized list when the error check is on, and is returned unchanged
\* when the check is off; a body without an errors key is returned unchanged.
C5_ErrorRule ==
    (method \in SingleRequestMethods /\ pc = "idle" /\ Len(received) = 1) =>
        LET body == received[1]
        IN  /\ ("errors" \in DOMAIN body /\ body.errors # <<>>) =>
                  IF frame.skip_error_check
                  THEN outcome.kind = "return" /\ outcome.value = body
                  ELSE /\ outcome.kind = "raise"
                       /\ outcome.exc = "ValueError"
                       /\ outcome.value = json_dumps(body.errors)
                       /\ NamesErrorCodes(outcome.value, body.errors)
            /\ "errors" \notin DOMAIN body =>
                  outcome.kind = "return" /\ outcome.value = body

\* C5 witness: a find was answered with two errors and raised their
\* serialization
C5_Witness ==
    /\ method = "find"
    /\ pc = "idle"
    /\ received = <<[errors |-> <<[message |-> "boom"], [errorCode |-> "X"]>>]>>
    /\ outcome = Raise("ValueError",
           <<"[", "{", "message", ":", "boom", "}", ",",
             "{", "errorCode", ":", "X", "}", "]">>)

C7_MakePayload ==
    method = "make_payload" =>
        LET top_level == frame.top_level
            kwargs == frame.kwargs
            payload == outcome.value
        IN  /\ outcome.kind = "return"
            /\ DOMAIN payload = {top_level}
            /\ DOMAIN payload[top_level]
                   = {key \in DOMAIN kwargs : kwargs[key] # None}
            /\ \A key \in DOMAIN payload[top_level] :
                  Some(payload[top_level][key]) = kwargs[key]
            /\ (\A key \in DOMAIN kwargs : kwargs[key] = None) =>
                  payload = [t \in {top_level} |-> EmptyDict]

\* C7 witness: make_payload("find", filter={"a": "1"}, sort={}, options=None)
\* returned {"find": {"filter": {"a": "1"}, "sort": {}}}
C7_Witness ==
    /\ method = "make_payload"
    /\ frame.top_level = "find"
    /\ frame.kwargs = [filter |-> Some([a |-> "1"]), sort |-> Some(EmptyDict),
                       options |-> None]
    /\ outcome.value = [find |-> [filter |-> [a |-> "1"], sort |-> EmptyDict]]

\* the methods C8 lists
C8_Methods ==
    {"find", "find_one", "find_one_and_update", "find_one_and_replace", "pop",
     "push", "insert_one", "insert_many", "update_one", "replace", "delete",
     "delete_subdocument", "upsert", "get_collections", "create_collection",
     "delete_collection"}

\* C8: every request body sent by a data-plane method is a mapping with one
\* top-level key, which is an operation name.
C8_SingleOperationKey ==
    method \in C8_Methods =>
        \A i \in 1..Len(sent) :
            /\ sent[i].json_data # None
            /\ Cardinality(DOMAIN sent[i].json_data[1]) = 1
            /\ DOMAIN sent[i].json_data[1] \subseteq OperationNames

\* C9: create_database returns {"id": the Location header} on status 201 and
\* None on every other status, whatever the body of the response.
C9_CreateDatabase ==
    (method = "create_database" /\ pc = "idle" /\ Len(received) = 1) =>
        LET r == received[1]
        IN  /\ (r.status_code = 201 /\ "Location" \in DOMAIN r.headers) =>
                  /\ outcome.kind = "return"
                  /\ outcome.value = [id |-> r.headers.Location]
            /\ r.status_code # 201 =>
                  outcome.kind = "return" /\ outcome.value = None

\* C9 witness: status 201 with Location: db-123 gave {"id": "db-123"}
C9_Witness ==
    /\ method = "create_database"
    /\ pc = "idle"
    /\ Len(received) = 1
    /\ received[1].status_code = 201
    /\ outcome = Return([id |-> "db-123"])

\* C10: terminate_database returns the database id on status 202 and None
\* on any other; delete_streaming_tenant returns None on 202 and raises a
\* ValueError with the response text on any other; of the operations that
\* read the status code, it alone raises on an unexpected status.
C10_StatusCodeOperations ==
    (pc = "idle" /\ Len(received) = 1) =>
        LET r == received[1]
        IN  /\ method = "terminate_database" =>
                  /\ outcome.kind = "return"
                  /\ outcome.value = IF r.status_code = 202
                                     THEN Some(frame.database) ELSE None
            /\ method = "delete_streaming_tenant" =>
                  IF r.status_code = 202
                  THEN outcome.kind = "return" /\ outcome.value = None
                  ELSE /\ outcome.kind = "raise"
                       /\ outcome.exc = "ValueError"
                       /\ outcome.value = r.text
            /\ (method = "create_database" /\ r.status_code # 201) =>
                  outcome.kind = "return"

\* C10 witness: delete_streaming_tenant met status 409 and raised the text
C10_Witness ==
    /\ method = "delete_streaming_tenant"
    /\ pc = "idle"
    /\ Len(received) = 1
    /\ received[1].status_code = 409
    /\ outcome = Raise("ValueError", "conflict")

\* the constructor calls of the data plane that name no AstraDB to use
DataPlaneConstructors == {"AstraDB", "AstraDBCollection"}

\* C11: constructing an AstraDB, or an AstraDBCollection without an
\* astra_db, with a missing token, a missing api_endpoint or an api_endpoint
\* that is not of the form https://<36-char-id>-<region>.<host> ends at once
\* in an error, without a request, and leaves no facade object; and while
\* the caller holds no facade object no request is issued or in flight.
C11_ConstructionFails ==
    /\ (method \in DataPlaneConstructors
            /\ (\/ frame.token = None
                \/ frame.api_endpoint = None
                \/ frame.api_endpoint[1] \in MalformedEndpoints)) =>
          /\ pc = "idle"
          /\ outcome.kind = "raise"
          /\ outcome.exc \in {"AssertionError", "ValueError"}
          /\ sent = <<>>
          /\ facade = NoFacade
    /\ facade = NoFacade => (pc = "idle" /\ sent = <<>>)

\* C11 witness: AstraDBCollection("c", token="tok", api_endpoint=an endpoint
\* whose host ends in .org) raised the format error and left no object
C11_Witness ==
    /\ method = "AstraDBCollection"
    /\ frame.token = Some("tok")
    /\ frame.api_endpoint # None
    /\ Len(frame.api_endpoint[1]) = Len(ExampleEndpoint)
    /\ Last(frame.api_endpoint[1]) = "g"
    /\ outcome = Raise("ValueError", "Invalid URL format")
    /\ sent = <<>>
    /\ facade = NoFacade

\* the public methods of the three facades that perform one remote operation
RequestMethods == CollectionMethods \cup DatabaseMethods \cup OpsMethods

\* the request of a call failed at the transport and the call has ended
TransportFailed ==
    /\ pc = "idle"
    /\ Len(sent) = Len(received) + 1

DocumentsOf(body) ==
    IF IsPage(body) THEN body.data.documents ELSE <<>>

RECURSIVE CountDocuments(_)
CountDocuments(answers) ==
    IF answers = <<>> THEN 0
    ELSE Len(DocumentsOf(Head(answers))) + CountDocuments(Tail(answers))

\* the pages all of whose documents, and those of the pages before, the
\* consumer has received
PagesConsumed ==
    {k \in 1..Len(received) :
        /\ IsPage(received[k])
        /\ CountDocuments(SubSeq(received, 1, k)) <= Len(yielded)}

\* what holds of a pagination in every state
LazyPagination ==
    method = "paginated_find" =>
        /\ gen.state = "created" => (sent = <<>> /\ pc = "idle")
        /\ Len(received) <= Len(sent)
        /\ Len(sent) <= Len(received) + 1
        /\ pc = "awaiting" =>
              /\ Len(sent) = Len(received) + 1
              /\ outcome = Pending
              /\ \A k \in 1..Len(received) : IsPage(received[k])
              /\ Len(yielded) = CountDocuments(received)
        /\ Len(sent) <= 1 + Cardinality(PagesConsumed)

\* C13: pagination is lazy, without prefetch.  The call of paginated_find
\* issues no request; a page request is issued only inside a next() of the
\* consumer that no document is left to answer, after every document of
\* every page before was yielded; at most one page request is in flight; the
\* number of requests is at most one plus the number of pages completely
\* consumed.
C13_LazyPagination ==
    [][/\ (method = "none" /\ method' = "paginated_find") =>
              (sent' = <<>> /\ pc' = "idle" /\ gen'.state = "created")
       /\ (method' = "paginated_find" /\ sent' # sent) =>
              /\ method = "paginated_find"
              /\ sent' = Append(sent, Last(sent'))
              /\ pc' = "awaiting"
              /\ outcome' = Pending
              /\ yielded' = yielded
              /\ pc = "idle" => (received' = received /\ gen.documents = <<>>)
              /\ pc = "awaiting" =>
                    /\ received' = Append(received, Last(received'))
                    /\ DocumentsOf(Last(received')) = <<>>
       /\ LazyPagination']_vars

\* C13 witness: the third page is requested, the consumer having received
\* the documents of the first two pages
C13_Witness ==
    /\ method = "paginated_find"
    /\ pc = "awaiting"
    /\ Len(sent) = 3
    /\ Len(received) = 2
    /\ received[1].data.documents = <<"d1">>
    /\ received[2].data.documents = <<"d2">>
    /\ yielded = <<"d1", "d2">>

\* what holds instead of C14: an upsert ends after its insertOne request,
\* whatever the concurrent client does
UpsertSingleRequest ==
    method = "upsert" =>
        /\ Len(sent) = 1
        /\ frame.step = "insert_one"
        /\ (received # <<>> /\ FirstErrorAlreadyExists(received[1])) =>
              (pc = "idle" /\ outcome.kind = "raise" /\ outcome.exc = "ValueError")

\* C14: upsert is a two-step sequence that a concurrent client can
\* interleave with: an upsert whose insertOne met the _id in the collection
\* has a findOneAndReplace request in flight afterwards, which the service
\* handles on the collection as it is then; when a concurrent client has
\* deleted the document by then, the replace finds none and upsert ends, with
\* no third request, the document not being in the collection.
C14_UpsertRace ==
    (method = "upsert" /\ received # <<>> /\ FirstErrorAlreadyExists(received[1])) =>
        /\ Len(sent) = 2
        /\ frame.step = "find_one_and_replace"
        /\ Len(received) = 1 => pc = "awaiting"
        /\ (/\ Len(received) = 2
            /\ "data" \in DOMAIN received[2]
            /\ "document" \in DOMAIN received[2].data
            /\ received[2].data.document = None) =>
              /\ pc = "idle"
              /\ frame.document \notin remote

\* the descriptor the constructor set is the one its arguments give: the
\* token, the endpoint (its matching start), the namespace or the default
ConstructorSetsDescriptor ==
    /\ (method = "AstraDB" /\ outcome.kind = "return") =>
          /\ facade.token = frame.token[1]
          /\ IsPrefix(facade.base_url, frame.api_endpoint[1])
          /\ frame.api_endpoint[1] \in WellFormedEndpoints =>
                facade.base_url = frame.api_endpoint[1]
          /\ facade.namespace = IF frame.namespace = None THEN DEFAULT_KEYSPACE_NAME
                                ELSE frame.namespace[1]
          /\ facade.base_path = <<DEFAULT_BASE_PATH, "/", facade.namespace>>
    /\ (method = "AstraDBCollection" /\ outcome.kind = "return") =>
          /\ facade.astra_db.token = frame.token[1]
          /\ IsPrefix(facade.astra_db.base_url, frame.api_endpoint[1])
          /\ facade.collection_name = "c"
          /\ facade.base_path = facade.astra_db.base_path \o <<"/", "c">>
    /\ (method = "collection" /\ outcome.kind = "return") =>
          /\ facade.astra_db = frame.astra_db
          /\ facade.base_path = frame.astra_db.base_path \o <<"/", "c">>
    /\ (method = "AstraDBOps" /\ outcome.kind = "return") =>
          /\ facade.token = <<"Bearer ", frame.token[1]>>
          /\ facade.base_url[2] = IF frame.dev_ops_url \in {None, Some("")}
                                  THEN DEFAULT_DEV_OPS_URL ELSE frame.dev_ops_url[1]

\* every request of the call went to the facade's base_url and base_path
\* with the facade's token
RequestsUseDescriptor ==
    \A i \in 1..Len(sent) :
        CASE facade.kind = "AstraDB" ->
               /\ sent[i].url = facade.base_url \o facade.base_path
               /\ sent[i].headers = [h \in {DEFAULT_AUTH_HEADER} |-> facade.token]
          [] facade.kind = "AstraDBCollection" ->
               /\ IsPrefix(facade.astra_db.base_url \o facade.base_path, sent[i].url)
               /\ method # "get" =>
                     sent[i].url = facade.astra_db.base_url \o facade.base_path
               /\ sent[i].headers =
                     [h \in {DEFAULT_AUTH_HEADER} |-> facade.astra_db.token]
          [] facade.kind = "AstraDBOps" ->
               /\ IsPrefix(facade.base_url, sent[i].url)
               /\ Len(sent[i].url) = Len(facade.base_url) + 1
               /\ sent[i].headers = [h \in {"Authorization"} |-> facade.token]
          [] OTHER -> FALSE

\* C15: the connection descriptor of a facade is immutable once constructed.
\* No step changes the facade object the caller holds, whether a call
\* returns or raises (AstraDB.collection makes a new object around the
\* unchanged AstraDB); its base_url, token, base_path, namespace and
\* collection_name are the ones the constructor set from its arguments; and
\* every request is issued with exactly these values.
C15_DescriptorImmutable ==
    [][/\ (facade.kind # "none" /\ method' # "collection") => facade' = facade
       /\ (facade.kind # "none" /\ method' = "collection") =>
              (facade'.astra_db = facade \/ facade' = facade)
       /\ ConstructorSetsDescriptor'
       /\ RequestsUseDescriptor']_vars

\* C15 witness: a find on a collection of namespace ns raised, after its
\* request went to the endpoint, the path and the token of the constructor
C15_Witness ==
    /\ method = "find"
    /\ pc = "idle"
    /\ outcome.kind = "raise"
    /\ facade.astra_db.namespace = "ns"
    /\ facade.astra_db.token = "tok"
    /\ sent[1].url = ExampleEndpoint \o <<DEFAULT_BASE_PATH, "/", "ns", "/", "c">>
    /\ sent[1].headers = [h \in {DEFAULT_AUTH_HEADER} |-> "tok"]

\* a step in which the request of a page fails: the transport raises, or the
\* body that arrives has errors
PageRequestFails ==
    /\ method = "paginated_find"
    /\ pc = "awaiting"
    /\ pc' = "idle"
    /\ received' = received \/ "errors" \in DOMAIN Last(received')

\* C16: a failing page request inside paginate is not swallowed.  In the
\* step in which it fails, the next() the consumer is in raises; the
\* documents of all earlier pages were yielded before, in order, and nothing
\* of the failing page is yielded; the call of paginated_find itself never
\* raises; and once the generator has ended it issues no request and yields
\* no document.
C16_PageFailurePropagates ==
    [][/\ PageRequestFails =>
              /\ outcome'.kind = "raise"
              /\ outcome'.exc = IF received' = received THEN "ConnectionError"
                                ELSE "ValueError"
              /\ gen'.state = "closed"
              /\ sent' = sent
              /\ yielded' = yielded
              /\ yielded = ConcatDocuments(received)
       /\ (method = "none" /\ method' = "paginated_find") =>
              outcome'.kind = "generator"
       /\ (method = "paginated_find" /\ gen.state = "closed") =>
              \/ method' = "none"
              \/ sent' = sent /\ yielded' = yielded /\ outcome'.kind = "stop"]_vars

\* C16 witness: the first page gave d1 and a cursor, the second request was
\* answered with errors (next to a document d2): the consumer has d1 only,
\* the error was raised and the generator has ended after two requests
C16_Witness ==
    /\ method = "paginated_find"
    /\ pc = "idle"
    /\ Len(sent) = 2
    /\ Len(received) = 2
    /\ received[1].data.documents = <<"d1">>
    /\ "errors" \in DOMAIN received[2]
    /\ "data" \in DOMAIN received[2]
    /\ yielded = <<"d1">>
    /\ outcome.kind = "raise"
    /\ gen.state = "closed"

\* Python truthiness of the dimension argument
Truthy(dimension) == dimension # None /\ dimension[1] # 0

\* C17: create_collection writes into the options mapping of its caller.
\* A call that passes a non-empty mapping and sends its request leaves in
\* that mapping a vector entry holding the dimension and the metric passed,
\* next to the caller's own entries, and the request carries that mapping;
\* a call that passes the same object once more, with the dimension (or the
\* metric) of a call before that sent its request, raises a ValueError
\* without a request; and no call that raises this ValueError sends a
\* request.
C17_OptionsObjectWritten ==
    [][(method = "none" /\ method' = "create_collection") =>
          LET options == frame'.options
              dimension == frame'.dimension
              metric == frame'.metric
          IN  /\ (~Falsy(options) /\ sent' # <<>>) =>
                    /\ held'.kind = "options"
                    /\ "vector" \in DOMAIN held'.value
                    /\ Truthy(dimension) =>
                          held'.value.vector.dimension = dimension[1]
                    /\ metric # "" => held'.value.vector.metric = metric
                    /\ \A k \in DOMAIN options[1] \ {"vector"} :
                          held'.value[k] = options[1][k]
                    /\ sent'[1].json_data[1].createCollection.options = held'.value
              /\ (/\ frame'.aliased
                  /\ DOMAIN held.value # {}
                  /\ held.requested
                  /\ \/ Truthy(dimension) /\ dimension = held.dimension
                     \/ metric # "" /\ metric = held.metric) =>
                    /\ pc' = "idle"
                    /\ outcome'.kind = "raise"
                    /\ outcome'.exc = "ValueError"
                    /\ sent' = <<>>
              /\ outcome'.kind = "raise" => (sent' = <<>> /\ pc' = "idle")]_vars

\* C17 witness: create_collection(options={"indexing": "x"}, dimension=2)
\* sent its request, and the same call once more, with the object the
\* caller held, raised before any request: the object had become
\* {"indexing": "x", "vector": {"dimension": 2}}
C17_Witness ==
    /\ method = "create_collection"
    /\ frame.aliased
    /\ frame.options = Some([indexing |-> "x", vector |-> [dimension |-> 2]])
    /\ frame.dimension = Some(2)
    /\ frame.metric = ""
    /\ outcome = Raise("ValueError", "dimension")
    /\ sent = <<>>
    /\ pc = "idle"

====
